---- MODULE Spec2Model ----
(***************************************************************************)
(* SimpleVector<Type> (src/simple_vector.h) over ArraydPtr<Type>           *)
(* (src/array_ptr.h), with the free store the two of them allocate from.   *)
(*                                                                         *)
(* Type is modelled as a small integer type: Type() is DefaultVal, copying *)
(* and moving an element both store its value.  A buffer is an address of  *)
(* the free store; the free store maps each address to whether an array    *)
(* lives there and to the array's cells.  Cell i of the C++ array is       *)
(* cells[i + 1].                                                           *)
(***************************************************************************)
EXTENDS Integers, Sequences, FiniteSets, TLC

\* ---------------------------------------------------------------- bounds
\* The number of cells of the free store: new Type[n] throws std::bad_alloc
\* when the arrays that live in it leave fewer than n cells.
MaxMem == 6
\* The largest size, capacity or index a caller passes in.
MaxArg == 3
\* Element values are 0..MaxVal.
MaxVal == 1
\* Number of addresses of the free store.
MaxAddr == 3
\* The longest literal list of the scenarios with two objects that hold
\* elements of Val.
MaxList == 2
\* The longest sequence of PushBack calls of the PushBack scenario.
MaxPush == 4

\* ------------------------------------------------------------- constants
Null == 0
DefaultVal == 0
\* The content of a cell of `new Type[n]` (no initializer): indeterminate.
Undef == 0 - 1

Val == 0..MaxVal
Addr == 1..MaxAddr
Vec == {"a", "b"}
Ptr == {"p", "q"}

Max(x, y) == IF x >= y THEN x ELSE y
Min(x, y) == IF x <= y THEN x ELSE y

\* ------------------------------------------------------------------ state
\* live:  the SimpleVector objects that exist (constructed, not yet destroyed)
\* vec:   the members of each object (Empty for one that does not exist)
\* heap:  the free store
\* mem:   the number of cells the free store holds
\* plive: the ArraydPtr objects that exist on their own (not as the items_ of
\*        a SimpleVector)
\* ptr:   the ptr_ of each of them (Null for one that does not exist)
\* last:  the call made last: its name, the object it was made on, its other
\*        object, its numeric argument, its element argument, the members of
\*        the object before the call, how it ended
\* watch: the objects whose calls are recorded in last with their name and
\*        arguments; of a call on any other object only how it ended is kept
\* mark:  what a scenario keeps of the calls made so far
VARIABLES live, vec, heap, mem, plive, ptr, last, watch, mark

vars == <<live, vec, heap, mem, plive, ptr, last, watch, mark>>
\* What a call on a SimpleVector leaves alone.
aside == <<mem, watch, plive, ptr>>

\* ------------------------------------------------------------ free store
FreeBuf == [st |-> "free", cells |-> <<>>]

\* The cells of the arrays at addresses 1..a of free store h.
RECURSIVE UsedCells(_, _)
UsedCells(h, a) == IF a = 0 THEN 0 ELSE Len(h[a].cells) + UsedCells(h, a - 1)

\* Whether `new Type[n]` can succeed in free store h.
CanAlloc(h, n) == UsedCells(h, MaxAddr) + n <= mem /\ \E a \in Addr : h[a].st = "free"

\* The address `new Type[n]` returns: the lowest free one.
NewAddr(h) == CHOOSE a \in Addr : h[a].st = "free" /\ \A b \in Addr : h[b].st = "free" => a <= b

\* new Type[n]() (init = DefaultVal) or new Type[n] (init = Undef) at address a.
NewArray(h, a, n, init) == [h EXCEPT ![a] = [st |-> "live", cells |-> [i \in 1..n |-> init]]]

\* delete [] p.  Deleting nullptr does nothing; deleting an address no array
\* lives at is undefined behaviour and leaves the free store corrupt.
DeleteArray(h, p) ==
    IF p = Null THEN h
    ELSE IF h[p].st = "live" THEN [h EXCEPT ![p] = FreeBuf]
    ELSE [h EXCEPT ![p] = [st |-> "corrupt", cells |-> <<>>]]

\* ptr_[i] read and written.
ReadCell(h, p, i) == h[p].cells[i + 1]
WriteCell(h, p, i, x) == [h EXCEPT ![p].cells[i + 1] = x]

\* std::fill(&p[lo], &p[hi], x)
RECURSIVE StdFill(_, _, _, _, _)
StdFill(h, p, lo, hi, x) ==
    IF lo >= hi THEN h ELSE StdFill(WriteCell(h, p, lo, x), p, lo + 1, hi, x)

\* std::copy(&sp[lo], &sp[hi], &dp[dlo]): front to back.
RECURSIVE StdCopy(_, _, _, _, _, _)
StdCopy(h, sp, lo, hi, dp, dlo) ==
    IF lo >= hi THEN h
    ELSE StdCopy(WriteCell(h, dp, dlo, ReadCell(h, sp, lo)), sp, lo + 1, hi, dp, dlo + 1)

\* std::copy_backward(&p[lo], &p[hi], &p[dend]): back to front.
RECURSIVE StdCopyBackward(_, _, _, _, _)
StdCopyBackward(h, p, lo, hi, dend) ==
    IF lo >= hi THEN h
    ELSE StdCopyBackward(WriteCell(h, p, dend - 1, ReadCell(h, p, hi - 1)), p, lo, hi - 1, dend - 1)

\* std::copy(init.begin(), init.end(), &p[0]) from a literal list.
RECURSIVE CopyList(_, _, _, _)
CopyList(h, p, s, i) ==
    IF i >= Len(s) THEN h ELSE CopyList(WriteCell(h, p, i, s[i + 1]), p, s, i + 1)

\* ------------------------------------------------------------- ArraydPtr
\* ArraydPtr::operator=(Type*): Swap(Type*) exchanges ptr_ with the by-value
\* parameter, so ptr_ becomes raw and the old ptr_ is dropped, not deleted.
ArraydPtrAssignRaw(this, raw) == raw

\* ArraydPtr(ArraydPtr&& other)
ArraydPtrMoveCtorLeak(other) == [self |-> other, other |-> other]
ArraydPtrMoveCtor(other) == [self |-> other, other |-> Null]

\* ArraydPtr::operator=(ArraydPtr&& other), this != &other: the old ptr_ is
\* overwritten, not deleted.
ArraydPtrMoveAssign(this, other) == [self |-> other, other |-> Null]

\* ArraydPtr::Swap(ArraydPtr& other)
ArraydPtrSwap(this, other) == [self |-> other, other |-> this]

\* ArraydPtr::Release()
ArraydPtrRelease(this) == [self |-> Null, result |-> this]

\* ~ArraydPtr()
ArraydPtrDtor(h, this) == DeleteArray(h, this)

\* std::exchange(obj, nullptr) on an ArraydPtr: old = std::move(obj) (move
\* constructor), obj = nullptr (operator=(Type*)), return old.
ExchangeNull(obj) ==
    LET old == ArraydPtrMoveCtor(obj)
    IN  [result |-> old.self, obj |-> ArraydPtrAssignRaw(old.other, Null)]

\* ---------------------------------------------------------- SimpleVector
\* The members of a SimpleVector: size_, capacity_, items_.
Members(s, c, p) == [size |-> s, capacity |-> c, items |-> p]
\* SimpleVector() noexcept = default
Empty == Members(0, 0, Null)

\* Result of a member function: the free store, the object, and how the call
\* ended: "ok", "bad_alloc" (std::bad_alloc thrown), "out_of_range" (thrown by
\* At) or "fault" (a write or read through a null items_).
Result(h, c, res) == [h |-> h, c |-> c, res |-> res]

\* SimpleVector(size_t size); ok: whether the free store grants the array.
CtorSize(h, n, ok) ==
    IF n > 0
    THEN IF ok /\ CanAlloc(h, n)
         THEN LET a == NewAddr(h)
              IN  Result(NewArray(h, a, n, DefaultVal), Members(n, n, ArraydPtrAssignRaw(Null, a)), "ok")
         ELSE Result(h, Empty, "bad_alloc")
    ELSE Result(h, Members(n, n, Null), "ok")

\* SimpleVector(const ReserveProxyObj& reserve)
CtorReserve(h, n, ok) ==
    LET r == CtorSize(h, n, ok)
    IN  IF r.res = "ok" THEN Result(r.h, [r.c EXCEPT !.size = 0], "ok") ELSE r

\* SimpleVector(size_t size, const Type& value)
CtorFill(h, n, x, ok) ==
    IF n > 0
    THEN IF ok /\ CanAlloc(h, n)
         THEN LET a == NewAddr(h)
                  h1 == NewArray(h, a, n, Undef)
              IN  Result(StdFill(h1, a, 0, n, x), Members(n, n, ArraydPtrAssignRaw(Null, a)), "ok")
         ELSE Result(h, Empty, "bad_alloc")
    ELSE Result(h, Members(n, n, Null), "ok")

\* SimpleVector(std::initializer_list<Type> init)
CtorList(h, s, ok) ==
    LET n == Len(s)
    IN  IF n > 0
        THEN IF ok /\ CanAlloc(h, n)
             THEN LET a == NewAddr(h)
                      h1 == NewArray(h, a, n, Undef)
                  IN  Result(CopyList(h1, a, s, 0), Members(n, n, ArraydPtrAssignRaw(Null, a)), "ok")
             ELSE Result(h, Empty, "bad_alloc")
        ELSE Result(h, Members(n, n, Null), "ok")

\* ~SimpleVector(): destroys items_.
Dtor(h, c) == ArraydPtrDtor(h, c.items)

\* SimpleVector(const SimpleVector& other)
CopyCtorShallow(h, other, ok) == Result(h, other, "ok")
CopyCtor(h, other, ok) ==
    IF other.size > 0
    THEN IF ok /\ CanAlloc(h, other.capacity)
         THEN LET a == NewAddr(h)
                  h1 == NewArray(h, a, other.capacity, Undef)
              IN  Result(StdCopy(h1, other.items, 0, other.size, a, 0),
                         Members(other.size, other.capacity, ArraydPtrAssignRaw(Null, a)), "ok")
         ELSE Result(h, Empty, "bad_alloc")
    ELSE Result(h, Members(other.size, other.capacity, Null), "ok")

\* void swap(SimpleVector& other) noexcept
Swap(c, other) ==
    LET p == ArraydPtrSwap(c.items, other.items)
    IN  [self |-> Members(other.size, other.capacity, p.self),
         other |-> Members(c.size, c.capacity, p.other)]

\* Copy assignment that deletes its own buffer before it copies rhs.
CopyAssignFreesFirst(h, c, rhs, ok) ==
    LET h0 == Dtor(h, c)
        t == CopyCtor(h0, rhs, ok)
    IN  IF t.res # "ok" THEN Result(h0, Empty, "bad_alloc") ELSE t

\* SimpleVector& operator=(const SimpleVector& rhs), this != &rhs
CopyAssign(h, c, rhs, ok) ==
    LET t == CopyCtor(h, rhs, ok)
    IN  IF t.res # "ok" THEN Result(h, c, "bad_alloc")
        ELSE LET sw == Swap(c, t.c)
             IN  Result(Dtor(t.h, sw.other), sw.self, "ok")

\* A move constructor that leaves the source its size_ and capacity_.
MoveCtorKeepsSize(other) ==
    LET p == ExchangeNull(other.items)
    IN  [self |-> Members(other.size, other.capacity, ArraydPtrMoveCtor(p.result).self),
         other |-> Members(other.size, other.capacity, p.obj)]

\* SimpleVector(SimpleVector&& other) noexcept
MoveCtor(other) ==
    LET p == ExchangeNull(other.items)
    IN  [self |-> Members(other.size, other.capacity, ArraydPtrMoveCtor(p.result).self),
         other |-> Members(0, 0, p.obj)]

\* SimpleVector& operator=(SimpleVector&& other) noexcept, this != &other.
\* The temporary std::exchange returns is empty when it is destroyed.
MoveAssign(c, other) ==
    LET p == ExchangeNull(other.items)
        q == ArraydPtrMoveAssign(c.items, p.result)
    IN  [self |-> Members(other.size, other.capacity, q.self),
         other |-> Members(0, 0, p.obj)]

\* void Clear() noexcept
Clear(c) == [c EXCEPT !.size = 0]

\* Resize without the std::copy into the new buffer.
ResizeNoCopy(h, c, n, ok) ==
    IF n > c.size /\ n <= c.capacity
    THEN IF c.items = Null THEN Result(h, c, "fault")
         ELSE Result(StdFill(h, c.items, c.size, n, DefaultVal), [c EXCEPT !.size = n], "ok")
    ELSE IF n > c.capacity
    THEN LET t == CtorSize(h, Max(n, 2 * c.capacity), ok)
         IN  IF t.res # "ok" THEN Result(h, c, "bad_alloc")
             ELSE LET sw == Swap(c, t.c)
                  IN  Result(Dtor(t.h, sw.other), [sw.self EXCEPT !.size = n], "ok")
    ELSE Result(h, [c EXCEPT !.size = n], "ok")

\* Resize without the std::fill of the slots it exposes within the capacity.
ResizeNoFill(h, c, n, ok) ==
    IF n > c.capacity
    THEN LET t == CtorSize(h, Max(n, 2 * c.capacity), ok)
         IN  IF t.res # "ok" THEN Result(h, c, "bad_alloc")
             ELSE IF c.size > 0 /\ c.items = Null THEN Result(h, c, "fault")
             ELSE LET h1 == StdCopy(t.h, c.items, 0, c.size, t.c.items, 0)
                      sw == Swap(c, t.c)
                  IN  Result(Dtor(h1, sw.other), [sw.self EXCEPT !.size = n], "ok")
    ELSE Result(h, [c EXCEPT !.size = n], "ok")

\* Resize that grows to new_size, not to max(new_size, 2 * capacity_).
ResizeGrowsExact(h, c, n, ok) ==
    IF n > c.size /\ n <= c.capacity
    THEN IF c.items = Null THEN Result(h, c, "fault")
         ELSE Result(StdFill(h, c.items, c.size, n, DefaultVal), [c EXCEPT !.size = n], "ok")
    ELSE IF n > c.capacity
    THEN LET t == CtorSize(h, n, ok)
         IN  IF t.res # "ok" THEN Result(h, c, "bad_alloc")
             ELSE IF c.size > 0 /\ c.items = Null THEN Result(h, c, "fault")
             ELSE LET h1 == StdCopy(t.h, c.items, 0, c.size, t.c.items, 0)
                      sw == Swap(c, t.c)
                  IN  Result(Dtor(h1, sw.other), [sw.self EXCEPT !.size = n], "ok")
    ELSE Result(h, [c EXCEPT !.size = n], "ok")

\* void Resize(size_t new_size)
Resize(h, c, n, ok) ==
    IF n > c.size /\ n <= c.capacity
    THEN IF c.items = Null THEN Result(h, c, "fault")
         ELSE Result(StdFill(h, c.items, c.size, n, DefaultVal), [c EXCEPT !.size = n], "ok")
    ELSE IF n > c.capacity
    THEN LET t == CtorSize(h, Max(n, 2 * c.capacity), ok)
         IN  IF t.res # "ok" THEN Result(h, c, "bad_alloc")
             ELSE IF c.size > 0 /\ c.items = Null THEN Result(h, c, "fault")
             ELSE LET h1 == StdCopy(t.h, c.items, 0, c.size, t.c.items, 0)
                      sw == Swap(c, t.c)
                  IN  Result(Dtor(h1, sw.other), [sw.self EXCEPT !.size = n], "ok")
    ELSE Result(h, [c EXCEPT !.size = n], "ok")

\* Reserve without the std::copy into the new buffer.
ReserveNoCopy(h, c, n, ok) ==
    IF n > c.capacity
    THEN LET t == CtorSize(h, n, ok)
         IN  IF t.res # "ok" THEN Result(h, c, "bad_alloc")
             ELSE LET p == ArraydPtrSwap(c.items, t.c.items)
                      copy == [t.c EXCEPT !.items = p.other]
                  IN  Result(Dtor(t.h, copy), Members(Min(c.size, n), n, p.self), "ok")
    ELSE Result(h, [c EXCEPT !.size = Min(c.size, n)], "ok")

\* Reserve with capacity_ = new_capacity outside the if.
ReserveSetsCapacity(h, c, n, ok) ==
    IF n > c.capacity
    THEN LET t == CtorSize(h, n, ok)
         IN  IF t.res # "ok" THEN Result(h, c, "bad_alloc")
             ELSE LET h1 == StdCopy(t.h, c.items, 0, c.size, t.c.items, 0)
                      p == ArraydPtrSwap(c.items, t.c.items)
                      copy == [t.c EXCEPT !.items = p.other]
                  IN  Result(Dtor(h1, copy), Members(c.size, n, p.self), "ok")
    ELSE Result(h, [c EXCEPT !.capacity = n], "ok")

\* void Reserve(size_t new_capacity)
Reserve(h, c, n, ok) ==
    IF n > c.capacity
    THEN LET t == CtorSize(h, n, ok)
         IN  IF t.res # "ok" THEN Result(h, c, "bad_alloc")
             ELSE IF c.size > 0 /\ c.items = Null THEN Result(h, c, "fault")
             ELSE LET h1 == StdCopy(t.h, c.items, 0, c.size, t.c.items, 0)
                      p == ArraydPtrSwap(c.items, t.c.items)
                      copy == [t.c EXCEPT !.items = p.other]
                  IN  Result(Dtor(h1, copy), Members(Min(c.size, n), n, p.self), "ok")
    ELSE Result(h, [c EXCEPT !.size = Min(c.size, n)], "ok")

\* void ResizeBeforeMove(size_t new_size)
ResizeBeforeMove(h, c, n, ok) ==
    IF n > c.size /\ n <= c.capacity
    THEN LET t == CtorSize(h, n - c.size, ok)
         IN  IF t.res # "ok" THEN Result(h, c, "bad_alloc")
             ELSE IF c.items = Null THEN Result(h, c, "fault")
             ELSE LET h1 == StdCopy(t.h, t.c.items, 0, t.c.size, c.items, c.size)
                  IN  Result(Dtor(h1, t.c), [c EXCEPT !.size = n], "ok")
    ELSE IF n > c.capacity
    THEN LET m == Max(n, 2 * c.capacity)
             t == CtorSize(h, m, ok)
         IN  IF t.res # "ok" THEN Result(h, c, "bad_alloc")
             ELSE IF c.size > 0 /\ c.items = Null THEN Result(h, c, "fault")
             ELSE LET h1 == StdCopy(t.h, c.items, 0, c.size, t.c.items, 0)
                      p == ArraydPtrSwap(c.items, t.c.items)
                      copy == [t.c EXCEPT !.items = p.other]
                  IN  Result(Dtor(h1, copy), Members(n, m, p.self), "ok")
    ELSE Result(h, [c EXCEPT !.size = n], "ok")

\* PushBack that stores the item in front of the last element.
PushBackOffByOne(h, c, x, ok) ==
    LET r == Resize(h, c, c.size + 1, ok)
    IN  IF r.res # "ok" THEN r
        ELSE Result(WriteCell(r.h, r.c.items, Max(r.c.size - 2, 0), x), r.c, "ok")

\* void PushBack(const Type& item), item not an element of this vector
PushBackCopy(h, c, x, ok) ==
    LET r == Resize(h, c, c.size + 1, ok)
    IN  IF r.res # "ok" THEN r
        ELSE Result(WriteCell(r.h, r.c.items, r.c.size - 1, x), r.c, "ok")

\* void PushBack(Type&& item)
PushBackMove(h, c, x, ok) ==
    LET r == ResizeBeforeMove(h, c, c.size + 1, ok)
    IN  IF r.res # "ok" THEN r
        ELSE Result(WriteCell(r.h, r.c.items, r.c.size - 1, x), r.c, "ok")

\* Insert that does not shift the tail before it stores the value.
InsertNoShift(h, c, index, x, ok) ==
    LET r == Resize(h, c, c.size + 1, ok)
    IN  IF r.res # "ok" THEN r
        ELSE Result(WriteCell(r.h, r.c.items, index, x), r.c, "ok")

\* Iterator Insert(ConstIterator pos, const Type& value), pos = begin() + index,
\* value not an element of this vector.  The iterator returned is
\* &items_[index] of the buffer the vector holds afterwards.
InsertCopy(h, c, index, x, ok) ==
    LET r == Resize(h, c, c.size + 1, ok)
    IN  IF r.res # "ok" THEN r
        ELSE LET h1 == StdCopyBackward(r.h, r.c.items, index, r.c.size - 1, r.c.size)
             IN  Result(WriteCell(h1, r.c.items, index, x), r.c, "ok")

\* Iterator Insert(ConstIterator pos, Type&& value), pos = begin() + index
InsertMove(h, c, index, x, ok) ==
    LET r == ResizeBeforeMove(h, c, c.size + 1, ok)
    IN  IF r.res # "ok" THEN r
        ELSE LET h1 == StdCopyBackward(r.h, r.c.items, index, r.c.size - 1, r.c.size)
             IN  Result(WriteCell(h1, r.c.items, index, x), r.c, "ok")

\* PopBack without the test for an empty object.
PopBackUnchecked(c) == [c EXCEPT !.size = c.size - 1]

\* The value read through a reference to cell j of the array at p.  When the
\* array has been deleted the read is undefined behaviour: junk is what it
\* finds there.
ReadRef(h, p, j, junk) ==
    IF p # Null /\ h[p].st = "live" /\ j < Len(h[p].cells) THEN ReadCell(h, p, j) ELSE junk

\* void PushBack(const Type& item), item bound to element j of this vector:
\* the reference is read after Resize has run.
PushBackRef(h, c, j, ok, junk) ==
    LET r == Resize(h, c, c.size + 1, ok)
    IN  IF r.res # "ok" THEN r
        ELSE Result(WriteCell(r.h, r.c.items, r.c.size - 1, ReadRef(r.h, c.items, j, junk)), r.c, "ok")

\* Iterator Insert(ConstIterator pos, const Type& value), value bound to element
\* j of this vector: the reference is read after Resize and the shift.
InsertRef(h, c, index, j, ok, junk) ==
    LET r == Resize(h, c, c.size + 1, ok)
    IN  IF r.res # "ok" THEN r
        ELSE LET h1 == StdCopyBackward(r.h, r.c.items, index, r.c.size - 1, r.c.size)
             IN  Result(WriteCell(h1, r.c.items, index, ReadRef(h1, c.items, j, junk)), r.c, "ok")

\* void PopBack() noexcept
PopBack(c) == IF c.size # 0 THEN [c EXCEPT !.size = c.size - 1] ELSE c

\* Erase that shifts the tail but keeps size_.
EraseKeepsSize(h, c, index) ==
    IF index # c.size
    THEN Result(StdCopy(h, c.items, index + 1, c.size, c.items, index), c, "ok")
    ELSE Result(h, c, "ok")

\* Iterator Erase(ConstIterator pos), pos = begin() + index; returns &items_[index]
Erase(h, c, index) ==
    IF index # c.size
    THEN Result(StdCopy(h, c.items, index + 1, c.size, c.items, index),
                [c EXCEPT !.size = c.size - 1], "ok")
    ELSE Result(h, c, "ok")

\* At that tests the index against capacity_.
AtWithinCapacity(c, index) == IF index < c.capacity THEN "ok" ELSE "out_of_range"

\* Type& At(size_t index): returns items_[index] or throws std::out_of_range
At(c, index) == IF index < c.size THEN "ok" ELSE "out_of_range"

\* operator[](index) = x, index < size_
IndexWrite(h, c, index, x) == WriteCell(h, c.items, index, x)

\* bool operator==(const SimpleVector& lhs, const SimpleVector& rhs):
\* std::equal over [cbegin(), cend()) of both when the sizes agree.
RECURSIVE StdEqual(_, _, _, _, _)
StdEqual(h, lp, rp, i, n) ==
    IF i >= n THEN TRUE
    ELSE IF ReadCell(h, lp, i) # ReadCell(h, rp, i) THEN FALSE
    ELSE StdEqual(h, lp, rp, i + 1, n)
OperatorEq(h, lhs, rhs) ==
    IF lhs.size = rhs.size THEN StdEqual(h, lhs.items, rhs.items, 0, lhs.size) ELSE FALSE

\* bool operator!=(lhs, rhs)
OperatorNe(h, lhs, rhs) == ~OperatorEq(h, lhs, rhs)

\* std::lexicographical_compare over cells [i, n) of lp and [j, m) of rp.
RECURSIVE StdLexCompare(_, _, _, _, _, _, _)
StdLexCompare(h, lp, i, n, rp, j, m) ==
    IF i >= n \/ j >= m THEN i >= n /\ j < m
    ELSE IF ReadCell(h, lp, i) < ReadCell(h, rp, j) THEN TRUE
    ELSE IF ReadCell(h, rp, j) < ReadCell(h, lp, i) THEN FALSE
    ELSE StdLexCompare(h, lp, i + 1, n, rp, j + 1, m)

\* operator< that compares the sizes before the elements.
OperatorLtSizeFirst(h, lhs, rhs) ==
    IF lhs.size # rhs.size THEN lhs.size < rhs.size
    ELSE StdLexCompare(h, lhs.items, 0, lhs.size, rhs.items, 0, rhs.size)

\* bool operator<(lhs, rhs)
OperatorLt(h, lhs, rhs) == StdLexCompare(h, lhs.items, 0, lhs.size, rhs.items, 0, rhs.size)

\* bool operator<=(lhs, rhs)
OperatorLe(h, lhs, rhs) == OperatorLt(h, lhs, rhs) \/ OperatorEq(h, lhs, rhs)

\* bool operator>(lhs, rhs)
OperatorGt(h, lhs, rhs) == ~OperatorLe(h, lhs, rhs)

\* bool operator>=(lhs, rhs)
OperatorGe(h, lhs, rhs) == ~OperatorLt(h, lhs, rhs)

\* ---------------------------------------------------------- observations
\* The elements [begin(), end()) of c.
Elems(h, c) == [i \in 1..c.size |-> ReadCell(h, c.items, i - 1)]

\* ------------------------------------------------------------------ calls
NoVec == "-"
\* An iterator: the address of a buffer and an offset into it (&p[i]).
Iter(p, i) == [buf |-> p, off |-> i]
\* The call returned no iterator.
NoIter == Iter(Null, 0)
Call(op, v, o, n, x, pre, res) ==
    [op |-> op, v |-> v, o |-> o, n |-> n, x |-> x, pre |-> pre, res |-> res, ret |-> NoIter]
\* A call that returns &items_[index] of the object as the call leaves it.
Returning(call, r, index) ==
    [call EXCEPT !.ret = IF r.res = "ok" THEN Iter(r.c.items, index) ELSE NoIter]
Note(call) == IF call.v \in watch THEN call ELSE Call("call", NoVec, NoVec, 0, 0, Empty, call.res)

\* Literal lists over V a caller passes to the initializer_list constructor.
Lists(V, N) == UNION {[1..n -> V] : n \in N}

\* The program starts with no object and an empty free store.
InitWatching(W, M, K) ==
    /\ live = {}
    /\ vec = [v \in Vec |-> Empty]
    /\ heap = [a \in Addr |-> FreeBuf]
    /\ last = Call("start", NoVec, NoVec, 0, 0, Empty, "ok")
    /\ watch = W
    /\ mem = M
    /\ mark = K
    /\ plive = {}
    /\ ptr = [p \in Ptr |-> Null]

\* A fault (a write through a null pointer) ends the program.
Running == last.res # "fault"

\* A constructor call on the storage of v: the object exists afterwards unless
\* the constructor threw.
Construct(v, r, call) ==
    /\ live' = IF r.res = "ok" THEN live \cup {v} ELSE live
    /\ vec' = [vec EXCEPT ![v] = r.c]
    /\ heap' = r.h
    /\ last' = Note(call)
    /\ UNCHANGED aside

\* A member function call on v.
Member(v, r, call) ==
    /\ vec' = [vec EXCEPT ![v] = r.c]
    /\ heap' = r.h
    /\ last' = Note(call)
    /\ UNCHANGED <<live, aside>>

CallDefaultCtor(v) ==
    /\ Running /\ v \notin live
    /\ Construct(v, Result(heap, Empty, "ok"), Call("SimpleVector()", v, NoVec, 0, 0, vec[v], "ok"))

CallCtorSize(v, n) ==
    /\ Running /\ v \notin live
    /\ \E ok \in BOOLEAN :
         LET r == CtorSize(heap, n, ok)
         IN  Construct(v, r, Call("SimpleVector(size)", v, NoVec, n, 0, vec[v], r.res))

CallCtorReserve(v, n) ==
    /\ Running /\ v \notin live
    /\ \E ok \in BOOLEAN :
         LET r == CtorReserve(heap, n, ok)
         IN  Construct(v, r, Call("SimpleVector(Reserve)", v, NoVec, n, 0, vec[v], r.res))

CallCtorFill(v, n, x) ==
    /\ Running /\ v \notin live
    /\ \E ok \in BOOLEAN :
         LET r == CtorFill(heap, n, x, ok)
         IN  Construct(v, r, Call("SimpleVector(size,value)", v, NoVec, n, x, vec[v], r.res))

CallCtorList(v, s) ==
    /\ Running /\ v \notin live
    /\ \E ok \in BOOLEAN :
         LET r == CtorList(heap, s, ok)
         IN  Construct(v, r, Call("SimpleVector(list)", v, NoVec, Len(s), 0, vec[v], r.res))

CallCopyCtor(v, o) ==
    /\ Running /\ v \notin live /\ o \in live
    /\ \E ok \in BOOLEAN :
         LET r == CopyCtor(heap, vec[o], ok)
         IN  Construct(v, r, Call("SimpleVector(copy)", v, o, 0, 0, vec[v], r.res))

CallMoveCtor(v, o) ==
    /\ Running /\ v \notin live /\ o \in live
    /\ LET r == MoveCtor(vec[o])
       IN  /\ live' = live \cup {v}
           /\ vec' = [vec EXCEPT ![v] = r.self, ![o] = r.other]
           /\ last' = Note(Call("SimpleVector(move)", v, o, 0, 0, vec[v], "ok"))
           /\ UNCHANGED <<heap, aside>>

CallDtor(v) ==
    /\ Running /\ v \in live
    /\ live' = live \ {v}
    /\ heap' = Dtor(heap, vec[v])
    /\ vec' = [vec EXCEPT ![v] = Empty]
    /\ last' = Note(Call("~SimpleVector", v, NoVec, 0, 0, vec[v], "ok"))
    /\ UNCHANGED aside

CallCopyAssign(v, o) ==
    /\ Running /\ v \in live /\ o \in live
    /\ \E ok \in BOOLEAN :
         LET r == IF v # o THEN CopyAssign(heap, vec[v], vec[o], ok) ELSE Result(heap, vec[v], "ok")
         IN  Member(v, r, Call("operator=(copy)", v, o, 0, 0, vec[v], r.res))

CallMoveAssign(v, o) ==
    /\ Running /\ v \in live /\ o \in live
    /\ LET r == IF v # o THEN MoveAssign(vec[v], vec[o]) ELSE [self |-> vec[v], other |-> vec[o]]
       IN  /\ vec' = [vec EXCEPT ![v] = r.self, ![o] = IF v # o THEN r.other ELSE r.self]
           /\ last' = Note(Call("operator=(move)", v, o, 0, 0, vec[v], "ok"))
           /\ UNCHANGED <<live, heap, aside>>

CallSwap(v, o) ==
    /\ Running /\ v \in live /\ o \in live
    /\ LET r == IF v # o THEN Swap(vec[v], vec[o]) ELSE [self |-> vec[v], other |-> vec[o]]
       IN  /\ vec' = [vec EXCEPT ![v] = r.self, ![o] = IF v # o THEN r.other ELSE r.self]
           /\ last' = Note(Call("swap", v, o, 0, 0, vec[v], "ok"))
           /\ UNCHANGED <<live, heap, aside>>

CallClear(v) ==
    /\ Running /\ v \in live
    /\ Member(v, Result(heap, Clear(vec[v]), "ok"), Call("Clear", v, NoVec, 0, 0, vec[v], "ok"))

CallResize(v, n) ==
    /\ Running /\ v \in live
    /\ \E ok \in BOOLEAN :
         LET r == Resize(heap, vec[v], n, ok)
         IN  Member(v, r, Call("Resize", v, NoVec, n, 0, vec[v], r.res))

CallReserve(v, n) ==
    /\ Running /\ v \in live
    /\ \E ok \in BOOLEAN :
         LET r == Reserve(heap, vec[v], n, ok)
         IN  Member(v, r, Call("Reserve", v, NoVec, n, 0, vec[v], r.res))

CallPushBackCopy(v, x) ==
    /\ Running /\ v \in live
    /\ \E ok \in BOOLEAN :
         LET r == PushBackCopy(heap, vec[v], x, ok)
         IN  Member(v, r, Call("PushBack(const&)", v, NoVec, 0, x, vec[v], r.res))

CallPushBackMove(v, x) ==
    /\ Running /\ v \in live
    /\ \E ok \in BOOLEAN :
         LET r == PushBackMove(heap, vec[v], x, ok)
         IN  Member(v, r, Call("PushBack(&&)", v, NoVec, 0, x, vec[v], r.res))

CallInsertCopy(v, index, x) ==
    /\ Running /\ v \in live /\ index <= vec[v].size
    /\ \E ok \in BOOLEAN :
         LET r == InsertCopy(heap, vec[v], index, x, ok)
         IN  Member(v, r, Returning(Call("Insert(const&)", v, NoVec, index, x, vec[v], r.res), r, index))

CallInsertMove(v, index, x) ==
    /\ Running /\ v \in live /\ index <= vec[v].size
    /\ \E ok \in BOOLEAN :
         LET r == InsertMove(heap, vec[v], index, x, ok)
         IN  Member(v, r, Returning(Call("Insert(&&)", v, NoVec, index, x, vec[v], r.res), r, index))

\* v.PushBack(v[j])
CallPushBackRef(v, j) ==
    /\ Running /\ v \in live /\ j < vec[v].size
    /\ \E ok \in BOOLEAN, junk \in Val :
         LET r == PushBackRef(heap, vec[v], j, ok, junk)
         IN  Member(v, r, Call("PushBack(v[j])", v, NoVec, j, 0, vec[v], r.res))

\* v.Insert(v.begin() + index, v[j])
CallInsertRef(v, index, j) ==
    /\ Running /\ v \in live /\ index <= vec[v].size /\ j < vec[v].size
    /\ \E ok \in BOOLEAN, junk \in Val :
         LET r == InsertRef(heap, vec[v], index, j, ok, junk)
         IN  Member(v, r, Returning(Call("Insert(pos, v[j])", v, NoVec, index, j, vec[v], r.res), r, index))

CallPopBack(v) ==
    /\ Running /\ v \in live
    /\ Member(v, Result(heap, PopBack(vec[v]), "ok"), Call("PopBack", v, NoVec, 0, 0, vec[v], "ok"))

CallErase(v, index) ==
    /\ Running /\ v \in live /\ index <= vec[v].size
    /\ LET r == Erase(heap, vec[v], index)
       IN  Member(v, r, Returning(Call("Erase", v, NoVec, index, 0, vec[v], r.res), r, index))

CallAt(v, index) ==
    /\ Running /\ v \in live
    /\ LET r == Result(heap, vec[v], At(vec[v], index))
       IN  last' = Note(Returning(Call("At", v, NoVec, index, 0, vec[v], r.res), r, index))
    /\ UNCHANGED <<live, vec, heap, aside>>

CallIndexWrite(v, index, x) ==
    /\ Running /\ v \in live /\ index < vec[v].size
    /\ Member(v, Result(IndexWrite(heap, vec[v], index, x), vec[v], "ok"),
              Call("operator[]", v, NoVec, index, x, vec[v], "ok"))

\* ---- calls on ArraydPtr objects that exist on their own
PtrCall(op, p, o, res) == Call(op, p, o, 0, 0, Empty, res)

\* ArraydPtr p;
CallPtrDefaultCtor(p) ==
    /\ Running /\ p \notin plive
    /\ plive' = plive \cup {p}
    /\ ptr' = [ptr EXCEPT ![p] = Null]
    /\ last' = Note(PtrCall("ArraydPtr()", p, NoVec, "ok"))
    /\ UNCHANGED <<live, vec, heap, mem, watch>>

\* ArraydPtr p(new Type[1]);
CallPtrCtorRaw(p) ==
    /\ Running /\ p \notin plive
    /\ \E ok \in BOOLEAN :
         IF ok /\ CanAlloc(heap, 1)
         THEN /\ heap' = NewArray(heap, NewAddr(heap), 1, Undef)
              /\ plive' = plive \cup {p}
              /\ ptr' = [ptr EXCEPT ![p] = NewAddr(heap)]
              /\ last' = Note(PtrCall("ArraydPtr(Type*)", p, NoVec, "ok"))
         ELSE /\ last' = Note(PtrCall("ArraydPtr(Type*)", p, NoVec, "bad_alloc"))
              /\ UNCHANGED <<heap, plive, ptr>>
    /\ UNCHANGED <<live, vec, mem, watch>>

\* ArraydPtr p(std::move(q));
CallPtrMoveCtor(p, q) ==
    /\ Running /\ p \notin plive /\ q \in plive
    /\ LET r == ArraydPtrMoveCtor(ptr[q])
       IN  ptr' = [ptr EXCEPT ![p] = r.self, ![q] = r.other]
    /\ plive' = plive \cup {p}
    /\ last' = Note(PtrCall("ArraydPtr(ArraydPtr&&)", p, q, "ok"))
    /\ UNCHANGED <<live, vec, heap, mem, watch>>

\* p = std::move(q);
CallPtrMoveAssign(p, q) ==
    /\ Running /\ p \in plive /\ q \in plive
    /\ LET r == ArraydPtrMoveAssign(ptr[p], ptr[q])
       IN  ptr' = IF p # q THEN [ptr EXCEPT ![p] = r.self, ![q] = r.other] ELSE ptr
    /\ last' = Note(PtrCall("ArraydPtr::operator=(ArraydPtr&&)", p, q, "ok"))
    /\ UNCHANGED <<live, vec, heap, mem, watch, plive>>

\* p.Swap(q);
CallPtrSwap(p, q) ==
    /\ Running /\ p \in plive /\ q \in plive
    /\ LET r == ArraydPtrSwap(ptr[p], ptr[q])
       IN  ptr' = IF p # q THEN [ptr EXCEPT ![p] = r.self, ![q] = r.other] ELSE ptr
    /\ last' = Note(PtrCall("ArraydPtr::Swap", p, q, "ok"))
    /\ UNCHANGED <<live, vec, heap, mem, watch, plive>>

\* delete [] p.Release();  the caller deletes the array Release hands over
CallPtrRelease(p) ==
    /\ Running /\ p \in plive
    /\ LET r == ArraydPtrRelease(ptr[p])
       IN  /\ ptr' = [ptr EXCEPT ![p] = r.self]
           /\ heap' = DeleteArray(heap, r.result)
    /\ last' = Note(PtrCall("ArraydPtr::Release", p, NoVec, "ok"))
    /\ UNCHANGED <<live, vec, mem, watch, plive>>

\* p goes out of scope
CallPtrDtor(p) ==
    /\ Running /\ p \in plive
    /\ heap' = ArraydPtrDtor(heap, ptr[p])
    /\ plive' = plive \ {p}
    /\ ptr' = [ptr EXCEPT ![p] = Null]
    /\ last' = Note(PtrCall("~ArraydPtr", p, NoVec, "ok"))
    /\ UNCHANGED <<live, vec, mem, watch>>

Pointers(PS) ==
    \/ \E p \in PS : CallPtrDefaultCtor(p)
    \/ \E p \in PS : CallPtrCtorRaw(p)
    \/ \E p \in PS, q \in PS : CallPtrMoveCtor(p, q)
    \/ \E p \in PS, q \in PS : CallPtrMoveAssign(p, q)
    \/ \E p \in PS, q \in PS : CallPtrSwap(p, q)
    \/ \E p \in PS : CallPtrRelease(p)
    \/ \E p \in PS : CallPtrDtor(p)

\* Construction and destruction of the objects VS, with sizes in N and elements in V.
Lifetime(VS, N, V) ==
    \/ \E v \in VS : CallDefaultCtor(v)
    \/ \E v \in VS, n \in N : CallCtorSize(v, n)
    \/ \E v \in VS, n \in N : CallCtorReserve(v, n)
    \/ \E v \in VS, n \in N, x \in V : CallCtorFill(v, n, x)
    \/ \E v \in VS, s \in Lists(V, N) : CallCtorList(v, s)
    \/ \E v \in VS : CallDtor(v)

\* The member functions of one object.
Members1(VS, N, V) ==
    \/ \E v \in VS : CallClear(v)
    \/ \E v \in VS, n \in N : CallResize(v, n)
    \/ \E v \in VS, n \in N : CallReserve(v, n)
    \/ \E v \in VS, x \in V : CallPushBackCopy(v, x)
    \/ \E v \in VS, x \in V : CallPushBackMove(v, x)
    \/ \E v \in VS, k \in 0..MaxMem, x \in V : CallInsertCopy(v, k, x)
    \/ \E v \in VS, k \in 0..MaxMem, x \in V : CallInsertMove(v, k, x)
    \/ \E v \in VS : CallPopBack(v)
    \/ \E v \in VS, k \in 0..MaxMem : CallErase(v, k)
    \/ \E v \in VS, k \in 0..MaxMem : CallAt(v, k)
    \/ \E v \in VS, k \in 0..MaxMem, x \in V : CallIndexWrite(v, k, x)

\* The calls that take another object.
Members2(VS) ==
    \/ \E v \in VS, o \in VS : CallCopyCtor(v, o)
    \/ \E v \in VS, o \in VS : CallMoveCtor(v, o)
    \/ \E v \in VS, o \in VS : CallCopyAssign(v, o)
    \/ \E v \in VS, o \in VS : CallMoveAssign(v, o)
    \/ \E v \in VS, o \in VS : CallSwap(v, o)

\* One object "a", every call on it recorded, elements of Val.
Init == InitWatching({"a"}, MaxMem, <<>>)
Next ==
    /\ Lifetime({"a"}, 0..MaxArg, Val) \/ Members1({"a"}, 0..MaxArg, Val)
    /\ UNCHANGED mark
Spec == Init /\ [][Next]_vars

\* Two objects, every call, elements all DefaultVal, calls not recorded.
InitShape == InitWatching({}, MaxMem, <<>>)
NextShape ==
    /\ \/ Lifetime(Vec, 0..MaxArg, {DefaultVal})
       \/ Members1(Vec, 0..MaxArg, {DefaultVal})
       \/ Members2(Vec)
    /\ UNCHANGED mark
SpecShape == InitShape /\ [][NextShape]_vars

\* Two objects, or two ArraydPtr of their own while no object exists: the
\* calls that allocate, free or hand over an array; calls on the ArraydPtr
\* recorded.
InitOwn == InitWatching(Ptr, MaxMem, <<>>)
VecOwn ==
    \/ Lifetime(Vec, 0..MaxArg, {DefaultVal})
    \/ Members2(Vec)
    \/ \E v \in Vec, n \in 0..MaxArg : CallResize(v, n)
    \/ \E v \in Vec, n \in 0..MaxArg : CallReserve(v, n)
    \/ \E v \in Vec : CallPushBackCopy(v, DefaultVal)
    \/ \E v \in Vec : CallPushBackMove(v, DefaultVal)
    \/ \E v \in Vec, k \in 0..MaxMem : CallInsertCopy(v, k, DefaultVal)
    \/ \E v \in Vec, k \in 0..MaxMem : CallInsertMove(v, k, DefaultVal)
NextOwn ==
    /\ \/ plive = {} /\ VecOwn
       \/ live = {} /\ Pointers(Ptr)
    /\ UNCHANGED mark
SpecOwn == InitOwn /\ [][NextOwn]_vars

\* Two objects built from literal lists or capacity hints, then moved into
\* each other; every call recorded, elements of Val.
InitMove == InitWatching(Vec, MaxMem, <<>>)
NextMove ==
    /\ \/ \E v \in Vec, s \in Lists(Val, 0..MaxList) : CallCtorList(v, s)
       \/ \E v \in Vec, n \in 1..MaxList : CallCtorReserve(v, n)
       \/ \E v \in Vec : CallDtor(v)
       \/ \E v \in Vec : CallPopBack(v)
       \/ \E v \in Vec, o \in Vec : CallMoveCtor(v, o)
       \/ \E v \in Vec, o \in Vec : CallMoveAssign(v, o)
    /\ UNCHANGED mark
SpecMove == InitMove /\ [][NextMove]_vars

\* "a" and "b" built from literal lists or capacity hints, "b" made a copy of
\* "a" and the two changed from then on; calls not recorded.  mark keeps the
\* source and the destination of the last copy made while both still exist,
\* and the object changed last since.
CopyMark(o, v, t) == [src |-> o, dst |-> v, touched |-> t]
NoCopy == CopyMark(NoVec, NoVec, NoVec)
InitCopy == InitWatching({}, MaxMem, NoCopy)
Mutators(v) ==
    \/ CallClear(v)
    \/ \E n \in 0..MaxList : CallResize(v, n)
    \/ \E n \in 0..MaxList : CallReserve(v, n)
    \/ \E x \in Val : CallPushBackCopy(v, x)
    \/ \E x \in Val : CallPushBackMove(v, x)
    \/ \E k \in 0..MaxList, x \in Val : CallInsertCopy(v, k, x)
    \/ \E k \in 0..MaxList, x \in Val : CallInsertMove(v, k, x)
    \/ CallPopBack(v)
    \/ \E k \in 0..MaxList : CallErase(v, k)
    \/ \E k \in 0..MaxList, x \in Val : CallIndexWrite(v, k, x)
NextCopy ==
    \/ /\ \/ \E v \in Vec, s \in Lists(Val, 0..MaxList) : CallCtorList(v, s)
          \/ \E v \in Vec, n \in 1..MaxList : CallCtorReserve(v, n)
          \/ \E v \in Vec : CallDtor(v)
       /\ mark' = NoCopy
    \/ \E o \in Vec :
         /\ CallCopyCtor("b", o) \/ CallCopyAssign("b", o)
         /\ mark' = IF o # "b" /\ last'.res = "ok" THEN CopyMark(o, "b", NoVec) ELSE mark
    \/ \E v \in Vec :
         /\ mark.src # NoVec
         /\ Mutators(v)
         /\ mark' = [mark EXCEPT !.touched = v]
SpecCopy == InitCopy /\ [][NextCopy]_vars

\* "a" default-constructed and filled by PushBack calls, "b" built from the
\* literal list of the values pushed so far and destroyed again; the calls on
\* "b" recorded.  mark keeps the values pushed, in order.
InitPush == InitWatching({"b"}, 3 * MaxPush, <<>>)
NextPush ==
    \/ CallDefaultCtor("a") /\ mark' = <<>>
    \/ CallDtor("a") /\ UNCHANGED mark
    \/ \E x \in Val :
         /\ Len(mark) < MaxPush
         /\ CallPushBackCopy("a", x) \/ CallPushBackMove("a", x)
         /\ mark' = IF last'.res = "ok" THEN Append(mark, x) ELSE mark
    \/ "a" \in live /\ CallCtorList("b", mark) /\ UNCHANGED mark
    \/ CallDtor("b") /\ UNCHANGED mark
SpecPush == InitPush /\ [][NextPush]_vars

\* One object "a" built by its constructors and shortened by PopBack, then
\* given its own elements by reference; every call recorded, elements of Val.
InitRef == InitWatching({"a"}, MaxMem, <<>>)
NextRef ==
    /\ \/ Lifetime({"a"}, 0..MaxArg, Val)
       \/ CallPopBack("a")
       \/ \E j \in 0..MaxArg : CallPushBackRef("a", j)
       \/ \E k \in 0..MaxArg, j \in 0..MaxArg : CallInsertRef("a", k, j)
    /\ UNCHANGED mark
SpecRef == InitRef /\ [][NextRef]_vars

\* ----------------------------------------------------------------- claims
Ok(op) == last.op = op /\ last.res = "ok"

\* C1: every object that exists has size_ <= capacity_, after any sequence
\* of calls, calls that throw std::bad_alloc included.
C1_SizeWithinCapacity == \A v \in live : vec[v].size <= vec[v].capacity

\* A full object beside one with spare capacity, right after a call threw.
C1_Witness ==
    /\ last.res = "bad_alloc"
    /\ \E v \in live : vec[v].size = vec[v].capacity /\ vec[v].size > 0
    /\ \E v \in live : vec[v].size < vec[v].capacity /\ vec[v].size > 0

\* C2: every object that exists with capacity_ > 0 has a non-null items_.
C2_BufferWhenCapacity == \A v \in live : vec[v].capacity > 0 => vec[v].items # Null

\* The owners of the array at address a: the objects that exist whose items_
\* is a, and the ArraydPtr that exist on their own whose ptr_ is a.
Owners(a) == {v \in live : vec[v].items = a} \cup {p \in plive : ptr[p] = a}

\* C3: no array is held by two owning pointers that exist, and no array is
\* deleted twice.
C3_SingleOwner ==
    \A a \in Addr : Cardinality(Owners(a)) <= 1 /\ heap[a].st # "corrupt"

\* An ArraydPtr has just taken over the array of the other one, which is
\* empty now, in a free store where an array was deleted before.
C3_Witness ==
    /\ last.op \in {"ArraydPtr(ArraydPtr&&)", "ArraydPtr::operator=(ArraydPtr&&)"}
    /\ last.v # last.o /\ ptr[last.v] # Null /\ ptr[last.o] = Null /\ last.o \in plive
    /\ ptr[last.v] > 1 /\ heap[1].st = "free"

\* C4: no array is leaked: every array that lives in the free store is the
\* items_ of an object that exists.
C4_NoLeak == \A a \in Addr : heap[a].st = "live" => \E v \in live : vec[v].items = a

\* What a caller observes of an object: Size(), Capacity(), the elements.
View(h, c) == [size |-> c.size, capacity |-> c.capacity, elems |-> Elems(h, c)]

\* Whether the elements of c can be read: its items_ is an array that lives in
\* the free store and holds them.
Readable(h, c) ==
    c.size = 0 \/ (c.items # Null /\ h[c.items].st = "live" /\ Len(h[c.items].cells) >= c.size)

\* C5: a copy (copy constructor or copy assignment) has the size and the
\* elements of its source, and from then on a call that changes one of the
\* two leaves the size, the capacity and the elements of the other as they were.
C5_CopyIndependent ==
    [][/\ (mark'.src # NoVec /\ mark'.touched = NoVec)
          => /\ vec'[mark'.dst].size = vec[mark'.src].size
             /\ Readable(heap', vec'[mark'.dst])
             /\ Elems(heap', vec'[mark'.dst]) = Elems(heap, vec[mark'.src])
             /\ View(heap', vec'[mark'.src]) = View(heap, vec[mark'.src])
       /\ mark'.touched # NoVec
          => \A w \in {mark'.src, mark'.dst} \ {mark'.touched} :
               /\ Readable(heap, vec[w]) /\ Readable(heap', vec'[w])
               /\ View(heap', vec'[w]) = View(heap, vec[w])]_vars

\* The copy "b" of "a" was changed last, and the two hold different elements
\* at both places now.
C5_Witness ==
    /\ mark = CopyMark("a", "b", "b") /\ last.res = "ok"
    /\ vec["a"].size = MaxList /\ vec["b"].size = MaxList
    /\ \A i \in 1..MaxList : Elems(heap, vec["a"])[i] # Elems(heap, vec["b"])[i]

\* C6: a move (move constructor or move assignment) from a source into another
\* object leaves the source with size 0, capacity 0 and a null items_, and the
\* destination with the size, the capacity and the elements the source had;
\* move assignment of an object to itself leaves its size, capacity, items_
\* and elements as they were.
C6_Move ==
    [][\A v \in Vec, o \in Vec :
         (last'.op \in {"SimpleVector(move)", "operator=(move)"} /\ last'.v = v /\ last'.o = o)
         => IF v # o
            THEN /\ vec'[o] = Empty
                 /\ vec'[v].size = vec[o].size
                 /\ vec'[v].capacity = vec[o].capacity
                 /\ Elems(heap', vec'[v]) = Elems(heap, vec[o])
            ELSE /\ vec'[v] = vec[v]
                 /\ Elems(heap', vec'[v]) = Elems(heap, vec[v])]_vars

\* A move has just handed a non-default element with spare capacity behind it
\* to another object; the source still exists, and is empty.
C6_Witness ==
    /\ last.op \in {"SimpleVector(move)", "operator=(move)"} /\ last.v # last.o
    /\ last.o \in live /\ vec[last.o] = Empty
    /\ vec[last.v].size = 1 /\ vec[last.v].capacity = MaxList
    /\ Elems(heap, vec[last.v])[1] # DefaultVal

\* C7: Reserve(n) with n <= capacity_ (n < size_ included) leaves the size,
\* the capacity and the elements as they were.
C7_ReserveWithinCapacity ==
    [][\A v \in Vec :
         (last'.op = "Reserve" /\ last'.v = v /\ last'.res = "ok" /\ last'.n <= vec[v].capacity)
         => /\ vec'[v].size = vec[v].size
            /\ vec'[v].capacity = vec[v].capacity
            /\ Elems(heap', vec'[v]) = Elems(heap, vec[v])]_vars

\* C8: Reserve(n) with n > capacity_ that returns leaves capacity_ = n, the
\* size as it was and the elements [0, size) as they were, in order.
C8_ReserveGrows ==
    [][\A v \in Vec :
         (last'.op = "Reserve" /\ last'.v = v /\ last'.res = "ok" /\ last'.n > vec[v].capacity)
         => /\ vec'[v].capacity = last'.n
            /\ vec'[v].size = vec[v].size
            /\ Elems(heap', vec'[v]) = Elems(heap, vec[v])]_vars

\* Reserve has just grown an object that holds a non-default element.
C8_Witness ==
    /\ Ok("Reserve") /\ last.n > last.pre.capacity
    /\ vec[last.v].capacity = last.n
    /\ \E i \in 1..vec[last.v].size : Elems(heap, vec[last.v])[i] # DefaultVal

\* C9: Resize(n) that returns leaves size_ = n and capacity_ >= n, and the
\* first min(old size, n) elements as they were, in order.
C9_Resize ==
    [][\A v \in Vec :
         (last'.op = "Resize" /\ last'.v = v /\ last'.res = "ok")
         => /\ vec'[v].size = last'.n
            /\ vec'[v].capacity >= last'.n
            /\ \A i \in 1..Min(vec[v].size, last'.n) :
                 Elems(heap', vec'[v])[i] = Elems(heap, vec[v])[i]]_vars

\* Resize has just grown an object beyond its capacity, to twice the capacity
\* it had, keeping a non-default element.
C9_Witness ==
    /\ Ok("Resize") /\ last.n > last.pre.capacity /\ last.pre.size > 0
    /\ vec[last.v].capacity > last.n
    /\ Elems(heap, vec[last.v])[1] # DefaultVal

\* C10: after PushBack(v1), ..., PushBack(vk) on a default-constructed object
\* (either overload) the object has size k and holds v1..vk in order, and
\* operator== finds it equal to the object built from the literal list
\* {v1, ..., vk}.
C10_PushBackSequence ==
    /\ "a" \in live
       => /\ vec["a"].size = Len(mark)
          /\ Elems(heap, vec["a"]) = mark
    /\ ("a" \in live /\ Ok("SimpleVector(list)"))
       => OperatorEq(heap, vec["a"], vec["b"])

\* The object built from the literal list of MaxPush values pushed, not all
\* the same, has just been compared with the object they were pushed into.
C10_Witness ==
    /\ "a" \in live /\ Ok("SimpleVector(list)")
    /\ Len(mark) = MaxPush /\ mark[1] # mark[MaxPush] /\ mark[2] # mark[1]
    /\ OperatorEq(heap, vec["a"], vec["b"])

\* The least power of two >= k, from p on (0 for k = 0).
RECURSIVE LeastPow2(_, _)
LeastPow2(k, p) == IF k = 0 THEN 0 ELSE IF p >= k THEN p ELSE LeastPow2(k, 2 * p)

\* C11: on a default-constructed object changed by PushBack only (either
\* overload), a push changes the capacity only when size_ = capacity_ before
\* it, to 1 from 0 and to twice the capacity otherwise; after k pushes the
\* capacity is the least power of two >= k.
C11_GrowthDoubling ==
    [][("a" \in live /\ "a" \in live' /\ Len(mark') = Len(mark) + 1)
       => /\ vec'["a"].capacity =
               IF vec["a"].size # vec["a"].capacity THEN vec["a"].capacity
               ELSE IF vec["a"].capacity = 0 THEN 1 ELSE 2 * vec["a"].capacity
          /\ vec'["a"].capacity = LeastPow2(Len(mark'), 1)]_vars

\* Three pushes have taken the capacity to 4, and a fourth has left it there.
C11_Witness ==
    /\ "a" \in live /\ Len(mark) = 4
    /\ vec["a"].size = 4 /\ vec["a"].capacity = 4
    /\ last.res = "ok"

\* The capacity a full object grows to: 1 from 0, twice the capacity otherwise.
Grown(c) == IF c.size # c.capacity THEN c.capacity ELSE IF c.capacity = 0 THEN 1 ELSE 2 * c.capacity

\* C12: Insert(begin() + k, x) (either overload) that returns, on an object
\* holding e0..e(s-1) with 0 <= k <= s, leaves size s + 1 and the elements
\* e0..e(k-1), x, ek..e(s-1), returns the iterator at offset k of the buffer
\* the object holds afterwards, and leaves the capacity as it was unless the
\* object was full, when it becomes 1 from 0 and twice the capacity otherwise.
C12_Insert ==
    [][\A v \in Vec :
         (last'.op \in {"Insert(const&)", "Insert(&&)"} /\ last'.v = v /\ last'.res = "ok")
         => LET old == Elems(heap, vec[v])
                k == last'.n
            IN  /\ vec'[v].size = vec[v].size + 1
                /\ Elems(heap', vec'[v]) =
                     SubSeq(old, 1, k) \o <<last'.x>> \o SubSeq(old, k + 1, vec[v].size)
                /\ last'.ret = Iter(vec'[v].items, k)
                /\ vec'[v].capacity = Grown(vec[v])]_vars

\* Insert in the middle of a full object of two different elements has just
\* doubled its capacity.
C12_Witness ==
    /\ last.op \in {"Insert(const&)", "Insert(&&)"} /\ last.res = "ok"
    /\ last.n = 1 /\ last.pre.size = 2 /\ last.pre.capacity = 2
    /\ vec[last.v].size = 3 /\ vec[last.v].capacity = 4
    /\ Elems(heap, vec[last.v])[1] # Elems(heap, vec[last.v])[3]
    /\ last.ret = Iter(vec[last.v].items, 1)

\* The iterator end() of c.
End(c) == Iter(c.items, c.size)

\* C13: Erase(begin() + k) on an object holding e0..e(s-1), s >= 1 and
\* 0 <= k < s, leaves size s - 1 and the elements e0..e(k-1), e(k+1)..e(s-1),
\* leaves the capacity and the buffer address as they were, and returns the
\* iterator at offset k, which is end() exactly when the last element was
\* erased.
C13_Erase ==
    [][\A v \in Vec :
         (last'.op = "Erase" /\ last'.v = v /\ last'.n < vec[v].size)
         => LET old == Elems(heap, vec[v])
                k == last'.n
            IN  /\ last'.res = "ok"
                /\ vec'[v].size = vec[v].size - 1
                /\ Elems(heap', vec'[v]) = SubSeq(old, 1, k) \o SubSeq(old, k + 2, vec[v].size)
                /\ vec'[v].capacity = vec[v].capacity
                /\ vec'[v].items = vec[v].items
                /\ last'.ret = Iter(vec'[v].items, k)
                /\ (last'.ret = End(vec'[v])) <=> (k = vec[v].size - 1)]_vars

\* Erase has just taken the first of three elements, the two left differ.
C13_Witness ==
    /\ Ok("Erase") /\ last.n = 0 /\ last.pre.size = 3
    /\ vec[last.v].size = 2
    /\ Elems(heap, vec[last.v])[1] # Elems(heap, vec[last.v])[2]
    /\ last.ret # End(vec[last.v])

\* C14: At(i) throws std::out_of_range exactly when i >= size_ (At(size_)
\* included, also with size_ < capacity_) and returns element i otherwise; in
\* both cases the size, the capacity, the buffer and the elements stay as they
\* were.
C14_At ==
    [][\A v \in Vec :
         (last'.op = "At" /\ last'.v = v)
         => /\ (last'.res = "out_of_range") <=> (last'.n >= vec[v].size)
            /\ (last'.res = "ok") <=> (last'.n < vec[v].size)
            /\ last'.res = "ok"
               => /\ last'.ret = Iter(vec[v].items, last'.n)
                  /\ ReadCell(heap', last'.ret.buf, last'.ret.off) = Elems(heap, vec[v])[last'.n + 1]
            /\ vec' = vec /\ heap' = heap]_vars

\* At(Size()) has just thrown on an object that holds elements and has spare
\* capacity.
C14_Witness ==
    /\ last.op = "At" /\ last.res = "out_of_range"
    /\ last.n = vec[last.v].size /\ vec[last.v].size > 0
    /\ vec[last.v].size < vec[last.v].capacity

\* C15: a call (copy assignment, Resize, Reserve, PushBack, Insert) in which
\* the allocation of a buffer fails leaves the object as it was: size,
\* capacity, buffer and elements, and leaves no array of its own in the free
\* store.
C15_AllocationFailure ==
    [][last'.res = "bad_alloc" => (vec' = vec /\ heap' = heap /\ live' = live)]_vars

\* A call has just thrown std::bad_alloc on one of two full objects that
\* hold different elements.
C15_Witness ==
    /\ last.res = "bad_alloc" /\ live = Vec /\ mark.src # NoVec
    /\ \A v \in Vec : vec[v].size = MaxList /\ vec[v].capacity = MaxList
    /\ Elems(heap, vec["a"]) # Elems(heap, vec["b"])

\* Sequence s is lexicographically less than sequence t: they agree up to
\* some place where s has ended and t has not, or where s holds the smaller
\* element.
SeqLess(s, t) ==
    \E i \in 1..Len(t) :
        /\ \A j \in 1..(i - 1) : j <= Len(s) /\ s[j] = t[j]
        /\ i > Len(s) \/ s[i] < t[i]

\* C16: for any two objects l and r, l == r iff they hold the same elements,
\* l < r iff the elements of l are lexicographically less than those of r,
\* l != r iff not l == r, l <= r iff l < r or l == r, l > r iff not l <= r,
\* l >= r iff not l < r; exactly one of l < r, l == r, l > r holds; the
\* capacities play no part.
C16_Comparisons ==
    \A l \in live, r \in live :
        LET el == Elems(heap, vec[l])
            er == Elems(heap, vec[r])
            eq == OperatorEq(heap, vec[l], vec[r])
            lt == OperatorLt(heap, vec[l], vec[r])
            gt == OperatorGt(heap, vec[l], vec[r])
        IN  /\ eq <=> (el = er)
            /\ lt <=> SeqLess(el, er)
            /\ OperatorNe(heap, vec[l], vec[r]) <=> (el # er)
            /\ OperatorLe(heap, vec[l], vec[r]) <=> (SeqLess(el, er) \/ el = er)
            /\ gt <=> SeqLess(er, el)
            /\ OperatorGe(heap, vec[l], vec[r]) <=> (SeqLess(er, el) \/ el = er)
            /\ Cardinality({b \in {<<1, lt>>, <<2, eq>>, <<3, gt>>} : b[2]}) = 1

\* "a" is a proper prefix of "b" and has the larger capacity, and compares
\* less; both hold a non-default element.
C16_Witness ==
    /\ live = Vec
    /\ vec["a"].size = 1 /\ vec["b"].size = 2 /\ vec["a"].capacity > vec["b"].capacity
    /\ Elems(heap, vec["a"])[1] = Elems(heap, vec["b"])[1]
    /\ Elems(heap, vec["a"])[1] # DefaultVal
    /\ OperatorLt(heap, vec["a"], vec["b"]) /\ OperatorGt(heap, vec["b"], vec["a"])

\* C17: Resize(n) that returns, with n above the old size, leaves DefaultVal
\* in every element of [old size, n), whatever the slots held before, and
\* with n above the old capacity leaves capacity_ = max(n, 2 * old capacity).
C17_ResizeDefaults ==
    [][\A v \in Vec :
         (last'.op = "Resize" /\ last'.v = v /\ last'.res = "ok" /\ last'.n > vec[v].size)
         => /\ \A i \in (vec[v].size + 1)..last'.n : Elems(heap', vec'[v])[i] = DefaultVal
            /\ last'.n > vec[v].capacity
               => vec'[v].capacity = Max(last'.n, 2 * vec[v].capacity)]_vars

\* Resize has just exposed slots within the capacity of a buffer that still
\* holds an old non-default value in the slot behind them.
C17_Witness ==
    /\ Ok("Resize") /\ last.n > last.pre.size /\ last.n < last.pre.capacity
    /\ ReadCell(heap, vec[last.v].items, last.n) \notin {DefaultVal, Undef}
    /\ \A i \in (last.pre.size + 1)..last.n : Elems(heap, vec[last.v])[i] = DefaultVal

\* C18: a PushBack or Insert (either overload) or a Resize whose resulting
\* size is within the capacity, a Reserve(n) with n <= capacity_, and Clear,
\* PopBack, Erase and At allocate no buffer, so none of them ends with
\* std::bad_alloc.
C18_NoAllocationWithinCapacity ==
    [][\A v \in Vec :
         (/\ last'.v = v
          /\ \/ /\ last'.op \in {"PushBack(const&)", "PushBack(&&)", "Insert(const&)", "Insert(&&)"}
                /\ vec[v].size + 1 <= vec[v].capacity
             \/ last'.op \in {"Resize", "Reserve"} /\ last'.n <= vec[v].capacity
             \/ last'.op \in {"Clear", "PopBack", "Erase", "At"})
         => last'.res # "bad_alloc"]_vars

\* C19: PopBack on an empty object and Erase(end()) on any object return and
\* leave the size, the capacity, the buffer and the elements as they were,
\* Erase(end()) returning end(); PopBack on an object that holds elements
\* takes 1 from the size and changes nothing else.
C19_PopBackEraseEnd ==
    [][\A v \in Vec :
         /\ (last'.op = "PopBack" /\ last'.v = v)
            => /\ last'.res = "ok" /\ heap' = heap
               /\ vec'[v] = IF vec[v].size = 0 THEN vec[v]
                            ELSE [vec[v] EXCEPT !.size = vec[v].size - 1]
         /\ (last'.op = "Erase" /\ last'.v = v /\ last'.n = vec[v].size)
            => /\ last'.res = "ok" /\ heap' = heap /\ vec'[v] = vec[v]
               /\ last'.ret = End(vec[v])]_vars

\* PopBack has just returned on an empty object that has a buffer.
C19_Witness ==
    /\ Ok("PopBack") /\ last.pre.size = 0 /\ last.pre.capacity > 0
    /\ vec[last.v] = last.pre /\ vec[last.v].items # Null

\* C20: PushBack(v[j]) appends the value element j had before the call and
\* Insert(begin() + k, v[j]) places the value element j had before the call
\* at offset k, whether the call reallocates or shifts in place.
C20_SelfReference ==
    [][\A v \in Vec :
         /\ (last'.op = "PushBack(v[j])" /\ last'.v = v /\ last'.res = "ok")
            => Elems(heap', vec'[v])[vec[v].size + 1] = Elems(heap, vec[v])[last'.n + 1]
         /\ (last'.op = "Insert(pos, v[j])" /\ last'.v = v /\ last'.res = "ok")
            => Elems(heap', vec'[v])[last'.n + 1] = Elems(heap, vec[v])[last'.x + 1]]_vars

====
